---- MODULE Spec2Model ----
(***************************************************************************)
(* Model of src/app.py: the Tsallis exoplanet-probability function         *)
(* calculate_exoplanet_probability and the Gradio form bound to it.        *)
(*                                                                         *)
(* Python floats are modelled as binary floating-point numbers             *)
(*        value = s * m * 2^e,   2^(PREC-1) <= m < 2^PREC,                 *)
(* with signed zeros, infinities and NaN, round-to-nearest-even for        *)
(* + - * / and the exponent range of IEEE-754 binary64.  The significand   *)
(* is PREC bits wide instead of 53 because TLC's integers are 32 bits      *)
(* wide; everything else (overflow to inf, underflow to 0, inf * 0 = nan,  *)
(* absorption of a small term by a large one) happens as in binary64.      *)
(* Values below 2^EMIN are flushed to zero; values in the subnormal range  *)
(* keep PREC bits.                                                         *)
(***************************************************************************)
EXTENDS Integers, Sequences, FiniteSets, TLC

\* Significand width of the modelled float format.
PREC == 24

\* Exponent range of a Python float (IEEE-754 binary64): the largest finite
\* value is below 2^(EMAX+1), the smallest positive one is 2^EMIN.
EMAX == 1023
EMIN == -1074

-----------------------------------------------------------------------------
(* Integer helpers: every intermediate stays below 2^31.                   *)

RECURSIVE BitLen(_)
BitLen(x) == IF x = 0 THEN 0 ELSE 1 + BitLen(x \div 2)

ShiftR(x, k) == IF k >= 31 THEN 0 ELSE x \div (2 ^ k)

\* The exact product a * b of two naturals below 2^29, as <<hi, lo>> with
\* a * b = hi * 2^28 + lo and lo < 2^28 (14-bit limbs).
MulHiLo(a, b) ==
    LET a1 == a \div 16384
        a0 == a % 16384
        b1 == b \div 16384
        b0 == b % 16384
        X  == a1 * b0 + a0 * b1
        T  == (X % 16384) * 16384 + a0 * b0
    IN  << a1 * b1 + X \div 16384 + T \div 268435456, T % 268435456 >>

\* (hi * 2^28 + lo) / 2^k rounded to the nearest integer, ties to even.
RoundShift(hi, lo, k) ==
    IF k = 0 THEN hi * 268435456 + lo
    ELSE IF k <= 28
    THEN LET q    == hi * (2 ^ (28 - k)) + lo \div (2 ^ k)
             r    == lo % (2 ^ k)
             half == 2 ^ (k - 1)
         IN  IF r > half \/ (r = half /\ q % 2 = 1) THEN q + 1 ELSE q
    ELSE IF k - 28 > 30 THEN 0
    ELSE LET j  == k - 28
             q  == hi \div (2 ^ j)
             rh == hi % (2 ^ j)
             hh == 2 ^ (j - 1)
         IN  IF rh > hh \/ (rh = hh /\ (lo > 0 \/ q % 2 = 1)) THEN q + 1 ELSE q

-----------------------------------------------------------------------------
(* The float format.                                                       *)

Fin(s, m, e) == [k |-> "fin", s |-> s, m |-> m, e |-> e]
Zero(s)      == [k |-> "fin", s |-> s, m |-> 0, e |-> 0]
Inf(s)       == [k |-> "inf", s |-> s, m |-> 0, e |-> 0]
NaN          == [k |-> "nan", s |-> 1, m |-> 0, e |-> 0]

IsNaN(x)  == x.k = "nan"
IsInf(x)  == x.k = "inf"
IsZero(x) == x.k = "fin" /\ x.m = 0
IsFinite(x) == x.k = "fin"

\* Overflow and underflow of a normalised significand m at exponent e.
Range(s, m, e) ==
    IF e + PREC - 1 > EMAX THEN Inf(s)
    ELSE IF e + PREC - 1 < EMIN THEN Zero(s)
    ELSE Fin(s, m, e)

\* The float nearest to s * (hi * 2^28 + lo) * 2^e.
Pack(s, hi, lo, e) ==
    IF hi = 0 /\ lo = 0 THEN Zero(s)
    ELSE LET n == IF hi > 0 THEN 28 + BitLen(hi) ELSE BitLen(lo)
         IN  IF n <= PREC
             THEN Range(s, (hi * 268435456 + lo) * (2 ^ (PREC - n)), e - (PREC - n))
             ELSE LET q == RoundShift(hi, lo, n - PREC)
                  IN  IF q = 2 ^ PREC
                      THEN Range(s, 2 ^ (PREC - 1), e + n - PREC + 1)
                      ELSE Range(s, q, e + n - PREC)

\* An integer, and a decimal literal n / d, as floats.
FromInt(n) ==
    LET a == IF n < 0 THEN 0 - n ELSE n
    IN  Pack(IF n < 0 THEN -1 ELSE 1, a \div 268435456, a % 268435456, 0)

FNeg(x) == IF IsNaN(x) THEN x ELSE [x EXCEPT !.s = 0 - x.s]

\* x * y
FMul(x, y) ==
    IF IsNaN(x) \/ IsNaN(y) THEN NaN
    ELSE IF (IsInf(x) /\ IsZero(y)) \/ (IsZero(x) /\ IsInf(y)) THEN NaN
    ELSE IF IsInf(x) \/ IsInf(y) THEN Inf(x.s * y.s)
    ELSE IF IsZero(x) \/ IsZero(y) THEN Zero(x.s * y.s)
    ELSE LET p == MulHiLo(x.m, y.m)
         IN  Pack(x.s * y.s, p[1], p[2], x.e + y.e)

\* x + y for finite non-zero x, y with x.e >= y.e: three extra bits (guard,
\* round, sticky) below the significand of x.
AddAligned(x, y) ==
    LET d  == x.e - y.e
        A  == x.m * 8
        B0 == ShiftR(y.m * 8, d)
        st == IF d >= 31 THEN TRUE ELSE (y.m * 8) % (2 ^ d) # 0
        B  == IF st /\ B0 % 2 = 0 THEN B0 + 1 ELSE B0
        S  == x.s * A + y.s * B
        a  == IF S < 0 THEN 0 - S ELSE S
    IN  IF S = 0 THEN Zero(1)
        ELSE Pack(IF S < 0 THEN -1 ELSE 1, a \div 268435456, a % 268435456, x.e - 3)

\* x + y
FAdd(x, y) ==
    IF IsNaN(x) \/ IsNaN(y) THEN NaN
    ELSE IF IsInf(x) /\ IsInf(y) THEN (IF x.s = y.s THEN x ELSE NaN)
    ELSE IF IsInf(x) THEN x
    ELSE IF IsInf(y) THEN y
    ELSE IF IsZero(x) /\ IsZero(y) THEN (IF x.s = -1 /\ y.s = -1 THEN Zero(-1) ELSE Zero(1))
    ELSE IF IsZero(y) THEN x
    ELSE IF IsZero(x) THEN y
    ELSE IF x.e >= y.e THEN AddAligned(x, y) ELSE AddAligned(y, x)

\* x - y
FSub(x, y) == FAdd(x, FNeg(y))

\* Restoring division: n more quotient bits of rem / d, rem < d.
RECURSIVE LongDiv(_, _, _, _)
LongDiv(rem, d, n, acc) ==
    IF n = 0 THEN << acc, rem >>
    ELSE IF 2 * rem >= d THEN LongDiv(2 * rem - d, d, n - 1, 2 * acc + 1)
    ELSE LongDiv(2 * rem, d, n - 1, 2 * acc)

\* x / y (a zero divisor does not occur: the only divisors are non-zero
\* constants)
FDiv(x, y) ==
    IF IsNaN(x) \/ IsNaN(y) THEN NaN
    ELSE IF IsInf(x) /\ IsInf(y) THEN NaN
    ELSE IF IsZero(x) /\ IsZero(y) THEN NaN
    ELSE IF IsInf(x) \/ IsZero(y) THEN Inf(x.s * y.s)
    ELSE IF IsInf(y) \/ IsZero(x) THEN Zero(x.s * y.s)
    ELSE LET qr == LongDiv(x.m % y.m, y.m, PREC + 2, x.m \div y.m)
             Q  == 2 * qr[1] + (IF qr[2] # 0 THEN 1 ELSE 0)
         IN  Pack(x.s * y.s, Q \div 268435456, Q % 268435456, x.e - y.e - (PREC + 3))

\* The decimal literal n / d.
FromRat(n, d) == FDiv(FromInt(n), FromInt(d))

Sgn(x) == IF IsZero(x) THEN 0 ELSE x.s

MagLt(x, y) ==
    IF IsInf(x) THEN FALSE
    ELSE IF IsInf(y) THEN TRUE
    ELSE x.e < y.e \/ (x.e = y.e /\ x.m < y.m)

\* x < y, x <= y, x > y (all false when an operand is NaN)
FLt(x, y) ==
    IF IsNaN(x) \/ IsNaN(y) THEN FALSE
    ELSE IF Sgn(x) # Sgn(y) THEN Sgn(x) < Sgn(y)
    ELSE IF Sgn(x) = 0 THEN FALSE
    ELSE IF Sgn(x) = 1 THEN MagLt(x, y) ELSE MagLt(y, x)

FEq(x, y) == ~IsNaN(x) /\ ~IsNaN(y) /\ ~FLt(x, y) /\ ~FLt(y, x)
FLe(x, y) == FLt(x, y) \/ FEq(x, y)
FGt(x, y) == FLt(y, x)

-----------------------------------------------------------------------------
(* The library functions numpy.power and numpy.exp, computed through       *)
(* base-2 logarithm and exponential in fixed point with PREC + 2           *)
(* fractional bits.                                                        *)

FixOne == 2 ^ (PREC + 2)

\* floor(a * b / FixOne) for fixed-point a, b below 2 * FixOne
FixMul(a, b) ==
    LET p == MulHiLo(a, b)
    IN  p[1] * (2 ^ (28 - (PREC + 2))) + p[2] \div FixOne

\* ln 2 in fixed point (ln 2 * 2^30 = 744261117.95...)
FixLn2 == 744261117 \div (2 ^ (30 - (PREC + 2)))

\* The next n bits of log2(y / FixOne), FixOne <= y < 2 * FixOne, by
\* repeated squaring.
RECURSIVE Log2Frac(_, _, _)
Log2Frac(y, n, acc) ==
    IF n = 0 THEN acc
    ELSE LET sq == FixMul(y, y)
         IN  IF sq >= 2 * FixOne
             THEN Log2Frac(sq \div 2, n - 1, 2 * acc + 1)
             ELSE Log2Frac(sq, n - 1, 2 * acc)

\* log2(x) for a finite x > 0
Log2(x) ==
    LET fr == Log2Frac(x.m * 8, PREC + 2, 0)
    IN  FAdd(FromInt(x.e + PREC - 1), Pack(1, 0, fr, 0 - (PREC + 2)))

\* The Taylor series of e^u from the term t = u^(k-1) / (k-1)! on.
RECURSIVE ExpSeries(_, _, _, _)
ExpSeries(u, k, t, acc) ==
    IF t = 0 THEN acc
    ELSE ExpSeries(u, k + 1, FixMul(t, u) \div k, acc + t)

\* 2^t for a finite t: t = n + f with n an integer and 0 <= f < 1, and
\* 2^f = e^(f ln 2).
Exp2(t) ==
    IF IsZero(t) THEN FromInt(1)
    ELSE IF t.e + PREC - 1 >= 11 THEN (IF t.s = 1 THEN Inf(1) ELSE Zero(1))
    ELSE LET k  == 0 - t.e
             ip == IF k <= 0 THEN t.m * (2 ^ (0 - k)) ELSE ShiftR(t.m, k)
             fr == IF k <= 0 THEN 0
                   ELSE IF k < PREC THEN (t.m % (2 ^ k)) * (2 ^ (PREC + 2 - k))
                   ELSE IF k <= PREC + 2 THEN t.m * (2 ^ (PREC + 2 - k))
                   ELSE ShiftR(t.m, k - (PREC + 2))
             n  == IF t.s = 1 THEN ip ELSE IF fr = 0 THEN 0 - ip ELSE 0 - ip - 1
             f  == IF t.s = 1 \/ fr = 0 THEN fr ELSE FixOne - fr
             v  == ExpSeries(FixMul(f, FixLn2), 1, FixOne, 0)
         IN  Pack(1, v \div 268435456, v % 268435456, n - (PREC + 2))

\* numpy.power(b, y) for the bases this program raises: 10.0, a mass of at
\* least 1e-5, and the Tsallis base (0.0, a number >= 0, +inf or NaN).  A
\* negative base, which C's pow sends to NaN for a non-integer exponent,
\* is sent to NaN.
Pow(b, y) ==
    IF (~IsNaN(y) /\ IsZero(y)) \/ b = FromInt(1) THEN FromInt(1)
    ELSE IF IsNaN(b) \/ IsNaN(y) THEN NaN
    ELSE IF b.s = -1 /\ ~IsZero(b) THEN NaN
    ELSE IF IsZero(b) THEN (IF y.s = -1 THEN Inf(1) ELSE Zero(1))
    ELSE IF IsInf(b) THEN (IF y.s = -1 THEN Zero(1) ELSE Inf(1))
    ELSE IF IsInf(y)
    THEN (IF FLt(FromInt(1), b) = (y.s = 1) THEN Inf(1) ELSE Zero(1))
    ELSE LET t == FMul(y, Log2(b))
         IN  IF IsInf(t) THEN (IF t.s = 1 THEN Inf(1) ELSE Zero(1)) ELSE Exp2(t)

\* log2(e) = 1.442695041
Log2E == FromRat(1442695041, 1000000000)

\* numpy.exp(x)
Exp(x) ==
    IF IsNaN(x) THEN NaN
    ELSE IF IsInf(x) THEN (IF x.s = 1 THEN Inf(1) ELSE Zero(1))
    ELSE LET t == FMul(x, Log2E)
         IN  IF IsInf(t) THEN (IF t.s = 1 THEN Inf(1) ELSE Zero(1)) ELSE Exp2(t)

\* The largest float below a finite x > 0.
NextBelow(x) ==
    IF x.m > 2 ^ (PREC - 1) THEN Fin(x.s, x.m - 1, x.e)
    ELSE Range(x.s, 2 ^ PREC - 1, x.e - 1)

-----------------------------------------------------------------------------
(* Python strings are sequences of one-character strings.                  *)

Digit(d) == << "0", "1", "2", "3", "4", "5", "6", "7", "8", "9" >>[d + 1]

RECURSIVE IntDigits(_)
IntDigits(n) == IF n < 10 THEN << Digit(n) >> ELSE IntDigits(n \div 10) \o << Digit(n % 10) >>

\* Large integers as base-10000 limbs, least significant first: of n, of f
\* times a number (f <= 2^16), and of 2^e times a number.
RECURSIVE LimbsLE(_)
LimbsLE(n) == IF n < 10000 THEN << n >> ELSE << n % 10000 >> \o LimbsLE(n \div 10000)

RECURSIVE TimesLE(_, _, _)
TimesLE(ds, f, c) ==
    IF ds = << >> THEN (IF c = 0 THEN << >> ELSE LimbsLE(c))
    ELSE LET v == f * Head(ds) + c
         IN  << v % 10000 >> \o TimesLE(Tail(ds), f, v \div 10000)

RECURSIVE Times2Pow(_, _)
Times2Pow(ds, e) ==
    IF e <= 16 THEN TimesLE(ds, 2 ^ e, 0)
    ELSE Times2Pow(Times2Pow(ds, e \div 2), e - e \div 2)

Limb4(n) == << Digit(n \div 1000), Digit((n \div 100) % 10), Digit((n \div 10) % 10), Digit(n % 10) >>

RECURSIVE CharsBE(_)
CharsBE(ds) ==
    IF Len(ds) = 1 THEN IntDigits(Head(ds))
    ELSE CharsBE(Tail(ds)) \o Limb4(Head(ds))

\* |x| to two decimals, ties to even on the exact binary value.
FormatMagnitude(x) ==
    IF x.m = 0 THEN << "0", ".", "0", "0" >>
    ELSE IF x.e >= 0 THEN CharsBE(Times2Pow(LimbsLE(x.m), x.e)) \o << ".", "0", "0" >>
    ELSE LET k  == 0 - x.e
             ip == ShiftR(x.m, k)
             r  == IF k >= 31 THEN x.m ELSE x.m % (2 ^ k)
             p  == MulHiLo(r, 100)
             h  == RoundShift(p[1], p[2], k)
             I  == IF h = 100 THEN ip + 1 ELSE ip
             H  == IF h = 100 THEN 0 ELSE h
         IN  IntDigits(I) \o << ".", Digit(H \div 10), Digit(H % 10) >>

\* Mutant of Format: the "%" is not appended.
FormatNoPercent(x) ==
    IF IsNaN(x) THEN << "n", "a", "n" >>
    ELSE IF IsInf(x) THEN << "i", "n", "f" >>
    ELSE (IF x.s = -1 THEN << "-" >> ELSE << >>) \o FormatMagnitude(x)

\* f"{x:.2f}%"
Format(x) ==
    IF IsNaN(x) THEN << "n", "a", "n", "%" >>
    ELSE IF IsInf(x)
    THEN (IF x.s = -1 THEN << "-" >> ELSE << >>) \o << "i", "n", "f", "%" >>
    ELSE (IF x.s = -1 THEN << "-" >> ELSE << >>) \o FormatMagnitude(x) \o << "%" >>

-----------------------------------------------------------------------------
(* src/app.py, lines 5-9: the module's globals.                            *)

\* Mutant of Q_INDEX: the Boltzmann limit q = 1.
Q_INDEX_Boltzmann == FromInt(1)

Q_INDEX    == FromRat(18591, 10000)
KAPPA      == FromRat(2121, 10000)
A_MET      == FromRat(10789, 10000)
ALPHA_MASS == FromRat(9825, 10000)
BETA_MASS  == FromRat(22413, 10000)

Globals ==
    [Q_INDEX |-> Q_INDEX, KAPPA |-> KAPPA, A_MET |-> A_MET,
     ALPHA_MASS |-> ALPHA_MASS, BETA_MASS |-> BETA_MASS]

-----------------------------------------------------------------------------
(* Python values and operators used by calculate_exoplanet_probability.    *)

\* A local that is not bound yet, and a raised exception.
None  == [k |-> "none", s |-> 1, m |-> 0, e |-> 0]
Raise == [k |-> "raise", s |-> 1, m |-> 0, e |-> 0]

\* A numeric argument: a decimal number of hundredths (what a slider
\* sends), or a float.
Dec(h) == [t |-> "dec", h |-> h, f |-> None]
Flt(x) == [t |-> "flt", h |-> 0, f |-> x]

\* float(a)
PyFloat(a) == IF a.t = "dec" THEN FromRat(a.h, 100) ELSE a.f

\* max(a, b): b if b > a, else a
PyMax(a, b) == IF FGt(b, a) THEN b ELSE a

\* a / b of two Python floats: ZeroDivisionError when b is zero
PyDiv(a, b) == IF IsZero(b) THEN Raise ELSE FDiv(a, b)

\* The literals 1.0, 10.0, 1e-5, 0.0, 100
One       == FromInt(1)
Ten       == FromInt(10)
MassFloor == FromRat(1, 100000)
Hundred   == FromInt(100)

\* line 21: Z_term = np.power(10.0, A_MET * Z)
Z_term(g, Z) == Pow(Ten, FMul(g.A_MET, Z))

\* Mutant of M_term: the floored mass in both factors.
M_termFloored(g, M) ==
    FMul(Pow(PyMax(M, MassFloor), g.ALPHA_MASS),
         Exp(FMul(FNeg(g.BETA_MASS), PyMax(M, MassFloor))))

\* line 22: M_term = np.power(max(M, 1e-5), ALPHA_MASS) * np.exp(-BETA_MASS * M)
M_term(g, M) ==
    FMul(Pow(PyMax(M, MassFloor), g.ALPHA_MASS), Exp(FMul(FNeg(g.BETA_MASS), M)))

\* Mutant of Phi: the factor KAPPA is left out.
PhiNoKappa(g, zt, mt) == FMul(zt, mt)

\* line 23: Phi = KAPPA * Z_term * M_term
Phi(g, zt, mt) == FMul(FMul(g.KAPPA, zt), mt)

\* Mutant of Base: (Q_INDEX - 1.0) in place of (1.0 - Q_INDEX).
BaseFlipped(g, phi) == FSub(One, FMul(FSub(g.Q_INDEX, One), phi))

\* line 26: base = 1.0 - (1.0 - Q_INDEX) * Phi
Base(g, phi) == FSub(One, FMul(FSub(One, g.Q_INDEX), phi))

\* lines 28-29: if base <= 0: base = 0.0
ClampTaken(base) == FLe(base, Zero(1))
Clamp(base) == IF ClampTaken(base) THEN Zero(1) ELSE base

\* Mutant of Exponent: 1.0 / (Q_INDEX - 1.0).
ExponentPositive(g) == PyDiv(One, FSub(g.Q_INDEX, One))

\* line 31: the exponent 1.0 / (1.0 - Q_INDEX), and np.power(base, exponent)
Exponent(g) == PyDiv(One, FSub(One, g.Q_INDEX))
Eq_minus_Phi(base, x) == Pow(base, x)

\* line 34: P = 1.0 - eq_minus_Phi
Prob(eq) == FSub(One, eq)

\* line 37: P_percent = P * 100
Percent(P) == FMul(P, Hundred)

\* The whole call, for arguments a and b: the returned string, or Raise.
calculate_exoplanet_probability(g, a, b) ==
    LET M  == PyFloat(a)
        Z  == PyFloat(b)
        x  == Exponent(g)
    IN  IF x = Raise THEN Raise
        ELSE Format(Percent(Prob(Eq_minus_Phi(
                 Clamp(Base(g, Phi(g, Z_term(g, Z), M_term(g, M)))), x))))

-----------------------------------------------------------------------------
(* State.                                                                  *)

VARIABLES
    globals,       \* the module's five globals (lines 5-9)
    mass_slider,   \* value of mass_slider, in hundredths
    metal_slider,  \* value of metal_slider, in hundredths
    output_text,   \* content of output_text
    lastClick,     \* history: the slider values at the most recent click
    events,        \* history: number of form events so far
    calls,         \* the frame of each running invocation
    returned       \* history: <<arguments, result>> of every completed call

vars == << globals, mass_slider, metal_slider, output_text, lastClick, events,
           calls, returned >>

\* Slider ranges, steps and initial values, in hundredths (lines 56-65).
MassMin      == 10
MassMax      == 250
MassStep     == 5
MassDefault  == 100
MetalMin     == -100
MetalMax     == 50
MetalStep    == 5
MetalDefault == 0

MassGrid  == { MassMin + MassStep * i : i \in 0 .. ((MassMax - MassMin) \div MassStep) }
MetalGrid == { MetalMin + MetalStep * i : i \in 0 .. ((MetalMax - MetalMin) \div MetalStep) }

\* line 73: value="Waiting for input..."
Placeholder ==
    << "W", "a", "i", "t", "i", "n", "g", " ", "f", "o", "r", " ",
       "i", "n", "p", "u", "t", ".", ".", "." >>

\* Number of form events explored.
MaxEvents == 7

\* Arguments of direct calls: the slider grid, and values outside it (masses
\* <= 0 and just below the floor 1e-5, huge masses and metallicities).
OutMass  == { -40000, -100, 0, 40000 }
OutMetal == { -40000, 500, 1500, 40000 }
CallMass  == { Dec(h) : h \in MassGrid \cup OutMass } \cup { Flt(NextBelow(MassFloor)) }
CallMetal == { Dec(h) : h \in MetalGrid \cup OutMetal }

\* Arguments of the concurrent calls.
ConcMass  == { Dec(MassDefault), Dec(40000) }
ConcMetal == { Dec(MetalDefault), Dec(40000) }

Proc == { 1, 2 }

NoArg   == [t |-> "none", h |-> 0, f |-> None]
NoClick == << >>

\* The frame of an invocation: its position and its locals.
IdleFrame ==
    [pc |-> "idle", stellar_mass |-> NoArg, metallicity |-> NoArg,
     M |-> None, Z |-> None, Z_term |-> None, M_term |-> None, Phi |-> None,
     base |-> None, clamped |-> FALSE, eq_minus_Phi |-> None, P |-> None,
     P_percent |-> None, ret |-> << >>]

Entry(a, b) == [IdleFrame EXCEPT !.pc = "L16", !.stellar_mass = a, !.metallicity = b]

\* Mutant of Frame: the locals are shared by all invocations.
FrameShared(p) == calls[1]

\* The frame process p reads its locals from.
Frame(p) == calls[p]

Quiet == /\ globals = Globals
         /\ mass_slider = MassDefault
         /\ metal_slider = MetalDefault
         /\ output_text = Placeholder
         /\ lastClick = NoClick
         /\ events = 0
         /\ returned = { }

UNCHANGED_form == UNCHANGED << mass_slider, metal_slider, output_text, lastClick, events >>

-----------------------------------------------------------------------------
(* calculate_exoplanet_probability, one action per statement.              *)

\* A caller invokes the function.
Invoke(p, a, b) ==
    /\ calls[p].pc = "idle"
    /\ calls' = [calls EXCEPT ![p] = Entry(a, b)]
    /\ UNCHANGED << globals, returned >>
    /\ UNCHANGED_form

\* lines 16-17
L16(p) ==
    /\ calls[p].pc = "L16"
    /\ calls' = [calls EXCEPT ![p] = [Frame(p) EXCEPT
                    !.M = PyFloat(Frame(p).stellar_mass),
                    !.Z = PyFloat(Frame(p).metallicity),
                    !.pc = "L21"]]
    /\ UNCHANGED << globals, returned >>
    /\ UNCHANGED_form

\* line 21
L21(p) ==
    /\ calls[p].pc = "L21"
    /\ calls' = [calls EXCEPT ![p] = [Frame(p) EXCEPT
                    !.Z_term = Z_term(globals, Frame(p).Z), !.pc = "L22"]]
    /\ UNCHANGED << globals, returned >>
    /\ UNCHANGED_form

\* line 22
L22(p) ==
    /\ calls[p].pc = "L22"
    /\ calls' = [calls EXCEPT ![p] = [Frame(p) EXCEPT
                    !.M_term = M_term(globals, Frame(p).M), !.pc = "L23"]]
    /\ UNCHANGED << globals, returned >>
    /\ UNCHANGED_form

\* line 23
L23(p) ==
    /\ calls[p].pc = "L23"
    /\ calls' = [calls EXCEPT ![p] = [Frame(p) EXCEPT
                    !.Phi = Phi(globals, Frame(p).Z_term, Frame(p).M_term), !.pc = "L26"]]
    /\ UNCHANGED << globals, returned >>
    /\ UNCHANGED_form

\* Mutant of L26: the statement rebinds the global Q_INDEX to 1.0 - Q_INDEX.
L26_Rebind(p) ==
    /\ calls[p].pc = "L26"
    /\ calls' = [calls EXCEPT ![p] = [Frame(p) EXCEPT
                    !.base = Base(globals, Frame(p).Phi), !.pc = "L28"]]
    /\ globals' = [globals EXCEPT !.Q_INDEX = FSub(One, globals.Q_INDEX)]
    /\ UNCHANGED returned
    /\ UNCHANGED_form

\* line 26
L26(p) ==
    /\ calls[p].pc = "L26"
    /\ calls' = [calls EXCEPT ![p] = [Frame(p) EXCEPT
                    !.base = Base(globals, Frame(p).Phi), !.pc = "L28"]]
    /\ UNCHANGED << globals, returned >>
    /\ UNCHANGED_form

\* lines 28-29
L28(p) ==
    /\ calls[p].pc = "L28"
    /\ calls' = [calls EXCEPT ![p] = [Frame(p) EXCEPT
                    !.clamped = ClampTaken(Frame(p).base),
                    !.base = Clamp(Frame(p).base), !.pc = "L31"]]
    /\ UNCHANGED << globals, returned >>
    /\ UNCHANGED_form

\* line 31: the division raises, or the power is stored
L31(p) ==
    /\ calls[p].pc = "L31"
    /\ LET x == Exponent(globals)
       IN  calls' = [calls EXCEPT ![p] =
                        IF x = Raise
                        THEN [Frame(p) EXCEPT !.pc = "raised"]
                        ELSE [Frame(p) EXCEPT
                                 !.eq_minus_Phi = Eq_minus_Phi(Frame(p).base, x),
                                 !.pc = "L34"]]
    /\ UNCHANGED << globals, returned >>
    /\ UNCHANGED_form

\* line 34
L34(p) ==
    /\ calls[p].pc = "L34"
    /\ calls' = [calls EXCEPT ![p] = [Frame(p) EXCEPT
                    !.P = Prob(Frame(p).eq_minus_Phi), !.pc = "L37"]]
    /\ UNCHANGED << globals, returned >>
    /\ UNCHANGED_form

\* line 37
L37(p) ==
    /\ calls[p].pc = "L37"
    /\ calls' = [calls EXCEPT ![p] = [Frame(p) EXCEPT
                    !.P_percent = Percent(Frame(p).P), !.pc = "L40"]]
    /\ UNCHANGED << globals, returned >>
    /\ UNCHANGED_form

\* line 40: the string is built; the frame is at "done" until the caller
\* has taken the result
L40(p) ==
    /\ calls[p].pc = "L40"
    /\ calls' = [calls EXCEPT ![p] = [Frame(p) EXCEPT
                    !.ret = Format(Frame(p).P_percent), !.pc = "done"]]
    /\ UNCHANGED << globals, returned >>
    /\ UNCHANGED_form

\* The caller takes the result; the frame is discarded.
Return(p) ==
    /\ calls[p].pc = "done"
    /\ returned' = returned \cup
          { << calls[p].stellar_mass, calls[p].metallicity, calls[p].ret >> }
    /\ calls' = [calls EXCEPT ![p] = IdleFrame]
    /\ UNCHANGED globals
    /\ UNCHANGED_form

Step(p) ==
    \/ L16(p) \/ L21(p) \/ L22(p) \/ L23(p) \/ L26(p)
    \/ L28(p) \/ L31(p) \/ L34(p) \/ L37(p) \/ L40(p)

-----------------------------------------------------------------------------
(* Spec: one call of the function for each pair of arguments.              *)

Init ==
    /\ Quiet
    /\ \E a \in CallMass, b \in CallMetal :
          calls = [p \in Proc |-> IF p = 1 THEN Entry(a, b) ELSE IdleFrame]

Next == Step(1)

Spec == Init /\ [][Next]_vars

(* SpecConc: callers invoke the function concurrently; the statements of   *)
(* the running invocations interleave.                                     *)

InitConc ==
    /\ Quiet
    /\ calls = [p \in Proc |-> IdleFrame]

NextConc ==
    \E p \in Proc :
        \/ \E a \in ConcMass, b \in ConcMetal : Invoke(p, a, b)
        \/ Step(p)
        \/ Return(p)

SpecConc == InitConc /\ [][NextConc]_vars

-----------------------------------------------------------------------------
(* SpecUI: the form (lines 44-81).                                         *)

\* Mutant of MoveMass: the slider is bound to the function as well (a live
\* update on change).
MoveMassLive(v) ==
    /\ events < MaxEvents
    /\ v \in MassGrid
    /\ mass_slider' = v
    /\ output_text' = calculate_exoplanet_probability(globals, Dec(v), Dec(metal_slider))
    /\ events' = events + 1
    /\ UNCHANGED << globals, metal_slider, lastClick, calls, returned >>

\* The user moves a slider by one notch.
MoveMass(v) ==
    /\ events < MaxEvents
    /\ v \in MassGrid
    /\ mass_slider' = v
    /\ events' = events + 1
    /\ UNCHANGED << globals, metal_slider, output_text, lastClick, calls, returned >>

MoveMetal(v) ==
    /\ events < MaxEvents
    /\ v \in MetalGrid
    /\ metal_slider' = v
    /\ events' = events + 1
    /\ UNCHANGED << globals, mass_slider, output_text, lastClick, calls, returned >>

\* lines 77-81: calc_button.click(fn=calculate_exoplanet_probability,
\* inputs=[mass_slider, metal_slider], outputs=output_text)
Click ==
    /\ events < MaxEvents
    /\ LET r == calculate_exoplanet_probability(globals, Dec(mass_slider), Dec(metal_slider))
       IN  output_text' = IF r = Raise THEN output_text ELSE r
    /\ lastClick' = << mass_slider, metal_slider >>
    /\ events' = events + 1
    /\ UNCHANGED << globals, mass_slider, metal_slider, calls, returned >>

InitUI ==
    /\ Quiet
    /\ calls = [p \in Proc |-> IdleFrame]

NextUI ==
    \/ \E v \in { mass_slider - MassStep, mass_slider + MassStep } : MoveMass(v)
    \/ \E v \in { metal_slider - MetalStep, metal_slider + MetalStep } : MoveMetal(v)
    \/ Click

SpecUI == InitUI /\ [][NextUI]_vars

-----------------------------------------------------------------------------
(* Properties.                                                             *)

\* Positions at which a local of a frame is bound.
After(f, pcs) == f.pc \in pcs
HasMterm(f) == After(f, { "L23", "L26", "L28", "L31", "L34", "L37", "L40", "done" })
HasPhi(f)   == After(f, { "L26", "L28", "L31", "L34", "L37", "L40", "done" })
HasBase(f)  == After(f, { "L28", "L31", "L34", "L37", "L40", "done" })
Clamped(f)  == After(f, { "L31", "L34", "L37", "L40", "done" })
HasEq(f)    == After(f, { "L34", "L37", "L40", "done" })
HasP(f)     == After(f, { "L37", "L40", "done" })

CalledWith(f, m, z) == f.stellar_mass = Dec(m) /\ f.metallicity = Dec(z)
OnGrid(f) == \E m \in MassGrid, z \in MetalGrid : CalledWith(f, m, z)

IsDigit(c) == c \in { "0", "1", "2", "3", "4", "5", "6", "7", "8", "9" }
DigitVal(c) == CHOOSE d \in 0 .. 9 : Digit(d) = c

\* str matches ^-?\d+\.\d{2}%$
MatchesPercent(str) ==
    LET t == IF Len(str) > 0 /\ str[1] = "-" THEN Tail(str) ELSE str
        n == Len(t)
    IN  /\ n >= 5
        /\ t[n] = "%"
        /\ IsDigit(t[n - 1]) /\ IsDigit(t[n - 2])
        /\ t[n - 3] = "."
        /\ \A i \in 1 .. (n - 4) : IsDigit(t[i])

RECURSIVE DigitsValue(_)
DigitsValue(ds) ==
    IF ds = << >> THEN 0
    ELSE 10 * DigitsValue(SubSeq(ds, 1, Len(ds) - 1)) + DigitVal(ds[Len(ds)])

\* The number a matching string denotes, in hundredths.
Hundredths(str) ==
    LET neg == str[1] = "-"
        t   == IF neg THEN Tail(str) ELSE str
        n   == Len(t)
        v   == 100 * DigitsValue(SubSeq(t, 1, n - 4)) + 10 * DigitVal(t[n - 2]) + DigitVal(t[n - 1])
    IN  IF neg THEN 0 - v ELSE v

\* C1: the function is total: no call, whatever its arguments (on or off
\* the slider ranges, masses <= 0, overflowing potentials), ends in an
\* exception, and every finished call has returned a string ending in "%".
C1_Total ==
    \A p \in Proc :
        /\ calls[p].pc # "raised"
        /\ calls[p].pc = "done" =>
              /\ Len(calls[p].ret) >= 2
              /\ calls[p].ret[Len(calls[p].ret)] = "%"
              /\ \A i \in 1 .. Len(calls[p].ret) : calls[p].ret[i] \in STRING

\* a finished call with a negative mass and an overflowing metallicity
C1_Witness ==
    calls[1].pc = "done" /\ CalledWith(calls[1], -100, 40000)

\* C2: for arguments on the slider grid the returned string matches
\* ^-?\d+\.\d{2}%$ and denotes a number in [0, 100].
C2_GridFormat ==
    \A p \in Proc :
        (calls[p].pc = "done" /\ OnGrid(calls[p])) =>
            /\ MatchesPercent(calls[p].ret)
            /\ Hundredths(calls[p].ret) \in 0 .. 10000

\* a finished call at the corner (0.1, -1.0) of the grid
C2_Witness ==
    calls[1].pc = "done" /\ CalledWith(calls[1], MassMin, MetalMin)

\* C3 as stated: calculate_exoplanet_probability(1.0, 0.0) returns "2.19%".
C3_Original ==
    \A p \in Proc :
        (calls[p].pc = "done" /\ CalledWith(calls[p], 100, 0)) =>
            calls[p].ret = << "2", ".", "1", "9", "%" >>

\* C3 as amended: calculate_exoplanet_probability(1.0, 0.0) returns "2.21%".
C3_Solar ==
    \A p \in Proc :
        (calls[p].pc = "done" /\ CalledWith(calls[p], 100, 0)) =>
            calls[p].ret = << "2", ".", "2", "1", "%" >>

\* a finished call at the solar reference point
C3_Witness ==
    calls[1].pc = "done" /\ CalledWith(calls[1], 100, 0)

\* C4 as stated: for M = 1.0, Z = 5.0 the clamp fires and base is 0 when
\* the power of line 31 is evaluated.
C4_Original ==
    \A p \in Proc :
        (calls[p].pc = "L31" /\ CalledWith(calls[p], 100, 500)) =>
            calls[p].clamped /\ calls[p].base = Zero(1)

\* C4 as amended: for M = 1.0, Z = 5.0 the potential is large (above 1000)
\* but base = 1 - (1 - Q_INDEX) * Phi is above 1, the clamp does not fire
\* and base is still that value when the power of line 31 is evaluated.
C4_NoClamp ==
    \A p \in Proc :
        (calls[p].pc = "L31" /\ CalledWith(calls[p], 100, 500)) =>
            /\ FLt(FromInt(1000), calls[p].Phi)
            /\ ~calls[p].clamped
            /\ FLt(One, calls[p].base)
            /\ calls[p].base = FSub(One, FMul(FSub(One, Q_INDEX), calls[p].Phi))

\* the call for (1.0, 5.0) about to evaluate the power
C4_Witness ==
    calls[1].pc = "L31" /\ CalledWith(calls[1], 100, 500)

\* The results known so far: those taken by callers and those of finished
\* frames.
Results ==
    returned \cup
    { << calls[p].stellar_mass, calls[p].metallicity, calls[p].ret >> :
         p \in { q \in Proc : calls[q].pc = "done" } }

\* C5: any two calls with the same arguments return the same string,
\* whatever calls ran before or interleaved with them.
C5_Deterministic ==
    \A r1, r2 \in Results : (r1[1] = r2[1] /\ r1[2] = r2[2]) => r1[3] = r2[3]

\* two invocations have finished at the same time with the same arguments,
\* after calls with other arguments were completed
C5_Witness ==
    /\ calls[1].pc = "done" /\ calls[2].pc = "done"
    /\ calls[1].stellar_mass = calls[2].stellar_mass
    /\ calls[1].metallicity = calls[2].metallicity
    /\ \E r \in returned : r[1] # calls[1].stellar_mass

\* C6: the display holds the placeholder until the first click, and after
\* it exactly the string the function returns for the slider values of the
\* most recent click; moving a slider does not change it.
C6_Display ==
    output_text =
        IF lastClick = NoClick THEN Placeholder
        ELSE calculate_exoplanet_probability(Globals, Dec(lastClick[1]), Dec(lastClick[2]))

\* both sliders were moved after a click, and the display shows a result
C6_Witness ==
    /\ lastClick # NoClick
    /\ mass_slider # lastClick[1]
    /\ metal_slider # lastClick[2]
    /\ output_text # Placeholder

\* The mass term with the floored mass in both factors.
ClampedBoth(M) ==
    FMul(Pow(PyMax(M, MassFloor), ALPHA_MASS),
         Exp(FMul(FNeg(BETA_MASS), PyMax(M, MassFloor))))

\* The mass term with the floor in the power only.
ClampedPower(M) ==
    FMul(Pow(PyMax(M, MassFloor), ALPHA_MASS), Exp(FMul(FNeg(BETA_MASS), M)))

\* C7 as stated: the mass term floors the mass in the power only, M and Z
\* are the unclamped arguments, and for every M < 1e-5 the term differs
\* from the one with the floored mass in both factors.
C7_Original ==
    \A p \in Proc :
        HasMterm(calls[p]) =>
            /\ calls[p].M = PyFloat(calls[p].stellar_mass)
            /\ calls[p].Z = PyFloat(calls[p].metallicity)
            /\ calls[p].M_term = ClampedPower(calls[p].M)
            /\ FLt(calls[p].M, MassFloor) => calls[p].M_term # ClampedBoth(calls[p].M)

\* C7 as amended: the same, with the difference claimed for M <= 0 only
\* (for 0 < M < 1e-5 the two terms can round to the same float).
C7_Asymmetry ==
    \A p \in Proc :
        HasMterm(calls[p]) =>
            /\ calls[p].M = PyFloat(calls[p].stellar_mass)
            /\ calls[p].Z = PyFloat(calls[p].metallicity)
            /\ calls[p].M_term = ClampedPower(calls[p].M)
            /\ FLe(calls[p].M, Zero(1)) => calls[p].M_term # ClampedBoth(calls[p].M)

\* the mass term of a call with a negative mass has been computed
C7_Witness ==
    HasMterm(calls[1]) /\ calls[1].stellar_mass = Dec(-100)

\* C8: the stellar potential Phi is a non-negative number for every pair of
\* arguments.
C8_PhiNonNegative ==
    \A p \in Proc :
        HasPhi(calls[p]) => (~IsNaN(calls[p].Phi) /\ FLe(Zero(1), calls[p].Phi))

\* No statement of one invocation touches anything but that invocation's
\* frame (and the history of results).
FrameOnly ==
    /\ globals' = globals
    /\ << mass_slider, metal_slider, output_text >>' = << mass_slider, metal_slider, output_text >>
    /\ \A p, q \in Proc : (p # q /\ calls'[p] # calls[p]) => calls'[q] = calls[q]

\* C9: the five globals keep their startup values through every sequence
\* of calls, and a call changes nothing but its own frame.
C9_NoSideEffects ==
    /\ [](/\ globals.Q_INDEX = FromRat(18591, 10000)
          /\ globals.KAPPA = FromRat(2121, 10000)
          /\ globals.A_MET = FromRat(10789, 10000)
          /\ globals.ALPHA_MASS = FromRat(9825, 10000)
          /\ globals.BETA_MASS = FromRat(22413, 10000))
    /\ [][FrameOnly]_vars

\* a call has completed while another invocation is running
C9_Witness ==
    returned # { } /\ \E p \in Proc : calls[p].pc \notin { "idle", "done" }

\* C10 as stated: whenever Phi is a non-negative number, base >= 1, the
\* clamp branch is not taken, 0 < eq_minus_Phi <= 1 and 0 <= P < 1.
C10_Original ==
    \A p \in Proc :
        (HasPhi(calls[p]) /\ FLe(Zero(1), calls[p].Phi)) =>
            /\ HasBase(calls[p]) => FLe(One, calls[p].base)
            /\ Clamped(calls[p]) => ~calls[p].clamped
            /\ HasEq(calls[p]) =>
                  (FLt(Zero(1), calls[p].eq_minus_Phi) /\ FLe(calls[p].eq_minus_Phi, One))
            /\ HasP(calls[p]) => (FLe(Zero(1), calls[p].P) /\ FLt(calls[p].P, One))

\* C10 as amended: for every input the clamp branch is not taken; when Phi
\* is NaN so are base, eq_minus_Phi and P; otherwise base >= 1,
\* 0 <= eq_minus_Phi <= 1 and 0 <= P <= 1 (P is never negative or infinite).
C10_Range ==
    \A p \in Proc :
        /\ Clamped(calls[p]) => (~calls[p].clamped /\ calls[p].base # Zero(1))
        /\ (HasBase(calls[p]) /\ IsNaN(calls[p].Phi)) => IsNaN(calls[p].base)
        /\ (HasEq(calls[p]) /\ IsNaN(calls[p].Phi)) => IsNaN(calls[p].eq_minus_Phi)
        /\ (HasP(calls[p]) /\ IsNaN(calls[p].Phi)) => IsNaN(calls[p].P)
        /\ (HasBase(calls[p]) /\ ~IsNaN(calls[p].Phi)) => FLe(One, calls[p].base)
        /\ (HasEq(calls[p]) /\ ~IsNaN(calls[p].Phi)) =>
              (FLe(Zero(1), calls[p].eq_minus_Phi) /\ FLe(calls[p].eq_minus_Phi, One))
        /\ (HasP(calls[p]) /\ ~IsNaN(calls[p].Phi)) =>
              (FLe(Zero(1), calls[p].P) /\ FLe(calls[p].P, One) /\ IsFinite(calls[p].P))

\* a call whose potential overflowed has P = 1 exactly
C10_Witness ==
    /\ calls[1].pc = "done" /\ CalledWith(calls[1], 100, 40000)
    /\ IsInf(calls[1].base) /\ IsZero(calls[1].eq_minus_Phi) /\ calls[1].P = One

====
